---- MODULE Spec2Model ----
(***************************************************************************)
(* Model of generate_stl_previews.py: the batch runner (main), the        *)
(* per-file fallback pipeline (STLPreviewGenerator.generate_preview), the  *)
(* three rendering strategies, and the drawing loops of the wireframe      *)
(* strategy.                                                               *)
(*                                                                         *)
(* The collaborators (trimesh, matplotlib, PIL, the file system) are the   *)
(* environment.  A collaborator call inside a strategy either completes    *)
(* or raises an Exception; which one happens is chosen by the environment. *)
(* A save call (plt.savefig, img.save) that completes has written the      *)
(* whole image, one that raises has written nothing, and the statements    *)
(* after the save (plt.close, return True) complete.  Log lines are        *)
(* informational and always complete.                                      *)
(***************************************************************************)
EXTENDS Integers, Sequences, FiniteSets, TLC

VARIABLES
    tree,           \* the files under input_dir (never changed by the program)
    fs,             \* output_dir: stem of "<stem>.png" -> image, or NoFile
    run,            \* which invocation of main this is (1 = the first)
    pc,             \* position of the single thread of control
    stl_files,      \* main: the list find_stl_files returned
    idx,            \* main: 1-based position of stl_path in stl_files (0 = before the loop)
    success,        \* generate_preview: the local flag
    attempts,       \* strategy calls of the generate_preview call in progress
    e,              \* the exception the last strategy call caught, NoError if none
    success_count,  \* STLPreviewGenerator.success_count
    failure_count,  \* STLPreviewGenerator.failure_count
    skipped_count,  \* STLPreviewGenerator.skipped_count
    outcome,        \* file -> what generate_preview logged for it in this run
    calls,          \* file -> number of generate_preview calls for it in this run
    exit_code,      \* process exit status of this run, NoExit while running
    prev_fs,        \* fs as the previous run left it
    prev_outcome,   \* outcome as the previous run left it
    w_pc,           \* generate_preview_wireframe: position inside the try block
    mesh,           \* generate_preview_wireframe: the loaded mesh
    vertices_2d,    \* generate_preview_wireframe: projected vertices (in halves)
    face_i,         \* generate_preview_wireframe: loop position (0-based)
    plotted,        \* ax.plot calls made, in order
    patches         \* ax.add_patch calls made, in order

pipeVars == <<tree, fs, run, pc, stl_files, idx, success, attempts, e,
              success_count, failure_count, skipped_count, outcome, calls,
              exit_code, prev_fs, prev_outcome>>
wireVars == <<w_pc, mesh, vertices_2d, face_i, plotted, patches>>
vars == <<tree, fs, run, pc, stl_files, idx, success, attempts, e,
          success_count, failure_count, skipped_count, outcome, calls,
          exit_code, prev_fs, prev_outcome,
          w_pc, mesh, vertices_2d, face_i, plotted, patches>>

(***************************************************************************)
(* Bounds of the model.                                                    *)
(***************************************************************************)
MaxFiles == 2
MaxRuns == 2

\* The files a tree is drawn from: two stems in two subdirectories, one of
\* them also with an upper-case extension, and one file that is no mesh.
Dirs == {"a", "b"}
Stems == {"p", "q"}
Exts == {"stl", "STL", "txt"}
AllFiles ==
    {f \in [dir : Dirs, stem : Stems, ext : Exts] :
        \/ f.ext = "stl"
        \/ f.ext = "STL" /\ f.dir = "a" /\ f.stem = "p"
        \/ f.ext = "txt" /\ f.dir = "b" /\ f.stem = "q"}

Trees == {t \in SUBSET AllFiles : Cardinality(t) <= MaxFiles}

(***************************************************************************)
(* Paths.                                                                  *)
(***************************************************************************)
\* str.lower() on the extensions of the model
Lower(ext) == IF ext = "STL" THEN "stl" ELSE ext

\* file.lower().endswith('.stl')
Qualifies(f) == Lower(f.ext) = "stl"

\* all orders of a finite set, as sequences without repetition
Orders(S) ==
    {s \in [1..Cardinality(S) -> S] : \A i, j \in 1..Cardinality(S) : s[i] = s[j] => i = j}

\* find_stl_files: every qualifying file of the tree once, in os.walk's order
find_stl_files(t) == Orders({f \in t : Qualifies(f)})

\* seeded fault: the destination keeps the input's subdirectory
OutputPathMirrored(f) == [dir |-> f.dir, stem |-> f.stem]

\* os.path.join(output_dir, splitext(basename(stl_path))[0] + ".png")
OutputPath(f) == [dir |-> "out", stem |-> f.stem]

Dests == {OutputPath(f) : f \in AllFiles} \cup {OutputPathMirrored(f) : f \in AllFiles}

(***************************************************************************)
(* Output directory.                                                       *)
(***************************************************************************)
NoFile == [src |-> "none", by |-> "none", run |-> 0]
OldImage == [src |-> "earlier", by |-> "earlier", run |-> 0]

\* the image a strategy saves: what it drew (the source file), how, and when
Image(f, by) == [src |-> f, by |-> by, run |-> run]

\* seeded fault: the existence check looks up a path the program never writes
ExistsNever(dir, path) == FALSE

\* os.path.exists(output_path)
Exists(dir, path) == dir[path] # NoFile

(***************************************************************************)
(* Strategies.                                                             *)
(***************************************************************************)
Strategies == <<"matplotlib", "wireframe", "simple">>
Errors == {"load", "geometry", "capability"}
NoError == "none"

\* seeded fault: trimesh.load_mesh called before the try block
CaughtAfterLoad(err) == err \in Errors \ {"load"}

\* except Exception as e: every error of the taxonomy is an Exception
Caught(err) == err \in Errors

\* return True at the end of the try block, return False in the except clause
Reports(err) == err = NoError

\* seeded fault: the save precedes the drawing, so that only a load error prevents it
SavesBeforeDrawing(err) == err # "load"

\* the save is the last call of the try block that can raise: it is reached
\* and completes exactly when no call raised
Saves(err) == err = NoError

\* seeded fault: if / if / if instead of if / elif / elif
CascadeNoElif(by, ok) ==
    CASE by = "matplotlib" -> "wireframe"
      [] by = "wireframe" -> "simple"
      [] OTHER -> "tally"

\* the if / elif / elif chain of generate_preview: where control goes after
\* strategy `by` returned `ok`
Cascade(by, ok) ==
    IF ok THEN "tally"
    ELSE CASE by = "matplotlib" -> "wireframe"
           [] by = "wireframe" -> "simple"
           [] OTHER -> "tally"

(***************************************************************************)
(* Current file of the batch loop.                                         *)
(***************************************************************************)
stl_path == stl_files[idx]
output_path == OutputPath(stl_path)

NoOutcome == [kind |-> "none", by |-> "none"]
Skipped == [kind |-> "Skipped", by |-> "none"]
Failure == [kind |-> "Failure", by |-> "none"]
Success(by) == [kind |-> "Success", by |-> by]

\* no exit status yet (below every status)
NoExit == 0 - 1

\* seeded fault: the comparison is off by one
ExitStatusOffByOne(failures) == IF failures > 1 THEN 1 ELSE 0

\* if generator.failure_count > 0: sys.exit(1); falling off main exits 0
ExitStatus(failures) == IF failures > 0 THEN 1 ELSE 0

(***************************************************************************)
(* Initial states: a tree of at most MaxFiles files, an output directory   *)
(* that may hold previews of an earlier time, main not yet entered.        *)
(***************************************************************************)
OutputDirs ==
    {d \in [Dests -> {NoFile, OldImage}] :
        \A p \in Dests : p.dir # "out" => d[p] = NoFile}

WireIdle ==
    /\ w_pc = "idle"
    /\ mesh = [vertices |-> <<>>, faces |-> <<>>]
    /\ vertices_2d = <<>>
    /\ face_i = 0
    /\ plotted = <<>>
    /\ patches = <<>>

Init ==
    /\ tree \in Trees
    /\ fs \in OutputDirs
    /\ run = 1
    /\ pc = "main"
    /\ stl_files = <<>>
    /\ idx = 0
    /\ success = FALSE
    /\ attempts = <<>>
    /\ e = NoError
    /\ success_count = 0
    /\ failure_count = 0
    /\ skipped_count = 0
    /\ outcome = [f \in AllFiles |-> NoOutcome]
    /\ calls = [f \in AllFiles |-> 0]
    /\ exit_code = NoExit
    /\ prev_fs = fs
    /\ prev_outcome = outcome
    /\ WireIdle

(***************************************************************************)
(* main, lines 218-237: create the output directory, scan, return at once  *)
(* when nothing qualifies, else construct the generator (counters at 0).   *)
(***************************************************************************)
main ==
    /\ pc = "main"
    /\ \E found \in find_stl_files(tree) :
        /\ stl_files' = found
        /\ IF found = <<>>
           THEN /\ pc' = "done"
                /\ exit_code' = 0
           ELSE /\ pc' = "loop"
                /\ exit_code' = exit_code
    /\ idx' = 0
    /\ success_count' = 0
    /\ failure_count' = 0
    /\ skipped_count' = 0
    /\ UNCHANGED <<tree, fs, run, success, attempts, e, outcome, calls,
                   prev_fs, prev_outcome>>
    /\ UNCHANGED wireVars

(***************************************************************************)
(* main, lines 242-246: the for loop takes the next stl_path, computes     *)
(* output_path and calls generate_preview; after the last file it goes on  *)
(* to the summary.                                                         *)
(***************************************************************************)
main_loop ==
    /\ pc = "loop"
    /\ IF idx < Len(stl_files)
       THEN /\ idx' = idx + 1
            /\ calls' = [calls EXCEPT ![stl_files[idx + 1]] = @ + 1]
            /\ pc' = "generate_preview"
       ELSE /\ idx' = idx
            /\ calls' = calls
            /\ pc' = "summary"
    /\ UNCHANGED <<tree, fs, run, stl_files, success, attempts, e, success_count,
                   failure_count, skipped_count, outcome, exit_code,
                   prev_fs, prev_outcome>>
    /\ UNCHANGED wireVars

\* seeded fault: the skip branch lacks its return and falls through to the rendering
generate_preview_no_return ==
    /\ pc = "generate_preview"
    /\ attempts' = <<>>
    /\ e' = NoError
    /\ success' = FALSE
    /\ IF fs[output_path] # NoFile
       THEN /\ skipped_count' = skipped_count + 1
            /\ outcome' = [outcome EXCEPT ![stl_path] = Skipped]
       ELSE /\ skipped_count' = skipped_count
            /\ outcome' = outcome
    /\ pc' = Strategies[1]
    /\ UNCHANGED <<tree, fs, run, stl_files, idx, success_count, failure_count,
                   calls, exit_code, prev_fs, prev_outcome>>
    /\ UNCHANGED wireVars

(***************************************************************************)
(* generate_preview, lines 180-187: the existence check.  An existing      *)
(* destination is logged, counted as skipped, and the call returns.        *)
(***************************************************************************)
generate_preview ==
    /\ pc = "generate_preview"
    /\ attempts' = <<>>
    /\ e' = NoError
    /\ success' = FALSE
    /\ IF Exists(fs, output_path)
       THEN /\ skipped_count' = skipped_count + 1
            /\ outcome' = [outcome EXCEPT ![stl_path] = Skipped]
            /\ pc' = "loop"
       ELSE /\ skipped_count' = skipped_count
            /\ outcome' = outcome
            /\ pc' = Strategies[1]
    /\ UNCHANGED <<tree, fs, run, stl_files, idx, success_count, failure_count,
                   calls, exit_code, prev_fs, prev_outcome>>
    /\ UNCHANGED wireVars

(***************************************************************************)
(* One strategy call from the if / elif chain, lines 190-198.  The try     *)
(* block loads the mesh, draws, saves and returns True; an Exception       *)
(* raised by any call is caught and the strategy returns False.  An error  *)
(* that is not caught leaves generate_preview and main.                    *)
(***************************************************************************)
Strategy(by) ==
    /\ pc = by
    /\ \E err \in Errors \cup {NoError} :
        LET escapes == err # NoError /\ ~Caught(err)
            ok == ~escapes /\ Reports(err)
        IN  /\ attempts' = Append(attempts, [by |-> by, ok |-> ok])
            /\ e' = err
            /\ fs' = IF Saves(err)
                     THEN [fs EXCEPT ![output_path] = Image(stl_path, by)]
                     ELSE fs
            /\ IF escapes
               THEN /\ pc' = "aborted"
                    /\ success' = success
                    /\ outcome' = outcome
               ELSE /\ pc' = Cascade(by, ok)
                    /\ success' = (success \/ ok)
                    /\ outcome' = IF ok
                                  THEN [outcome EXCEPT ![stl_path] = Success(by)]
                                  ELSE outcome
    /\ UNCHANGED <<tree, run, stl_files, idx, success_count, failure_count,
                   skipped_count, calls, exit_code, prev_fs, prev_outcome>>
    /\ UNCHANGED wireVars

generate_preview_matplotlib == Strategy("matplotlib")
generate_preview_wireframe == Strategy("wireframe")
generate_preview_simple == Strategy("simple")

\* seeded fault: the else is missing, so that failure_count grows for every file
tally_no_else ==
    /\ pc = "tally"
    /\ success_count' = IF success THEN success_count + 1 ELSE success_count
    /\ failure_count' = failure_count + 1
    /\ outcome' = IF success THEN outcome ELSE [outcome EXCEPT ![stl_path] = Failure]
    /\ pc' = "loop"
    /\ attempts' = <<>>
    /\ e' = NoError
    /\ UNCHANGED <<tree, fs, run, stl_files, idx, success,
                   skipped_count, calls, exit_code, prev_fs, prev_outcome>>
    /\ UNCHANGED wireVars

(***************************************************************************)
(* generate_preview, lines 200-204: count the file, log a failure, return  *)
(* to the loop (pbar.update).                                              *)
(***************************************************************************)
tally ==
    /\ pc = "tally"
    /\ IF success
       THEN /\ success_count' = success_count + 1
            /\ failure_count' = failure_count
            /\ outcome' = outcome
       ELSE /\ success_count' = success_count
            /\ failure_count' = failure_count + 1
            /\ outcome' = [outcome EXCEPT ![stl_path] = Failure]
    /\ pc' = "loop"
    /\ attempts' = <<>>
    /\ e' = NoError
    /\ UNCHANGED <<tree, fs, run, stl_files, idx, success,
                   skipped_count, calls, exit_code, prev_fs, prev_outcome>>
    /\ UNCHANGED wireVars

(***************************************************************************)
(* main, lines 248-258: the summary and the exit status.                   *)
(***************************************************************************)
summary ==
    /\ pc = "summary"
    /\ exit_code' = ExitStatus(failure_count)
    /\ pc' = "done"
    /\ UNCHANGED <<tree, fs, run, stl_files, idx, success, attempts, e,
                   success_count, failure_count, skipped_count, outcome, calls,
                   prev_fs, prev_outcome>>
    /\ UNCHANGED wireVars

(***************************************************************************)
(* The script is run again over the same input and output directories,     *)
(* lines 260-268: a new process, a new generator.                          *)
(***************************************************************************)
run_again ==
    /\ pc = "done"
    /\ run < MaxRuns
    /\ run' = run + 1
    /\ prev_fs' = fs
    /\ prev_outcome' = outcome
    /\ pc' = "main"
    /\ stl_files' = <<>>
    /\ idx' = 0
    /\ success' = FALSE
    /\ attempts' = <<>>
    /\ e' = NoError
    /\ success_count' = 0
    /\ failure_count' = 0
    /\ skipped_count' = 0
    /\ outcome' = [f \in AllFiles |-> NoOutcome]
    /\ calls' = [f \in AllFiles |-> 0]
    /\ exit_code' = NoExit
    /\ UNCHANGED <<tree, fs>>
    /\ UNCHANGED wireVars

Next ==
    \/ main
    \/ main_loop
    \/ generate_preview
    \/ generate_preview_matplotlib
    \/ generate_preview_wireframe
    \/ generate_preview_simple
    \/ tally
    \/ summary
    \/ run_again

Spec == Init /\ [][Next]_vars

\* One run of main: every call is blocking and the thread is the only one,
\* so a run whose calls all return keeps taking steps until main ends.
\* Nothing forces the script to be run again.
RunStep ==
    \/ main
    \/ main_loop
    \/ generate_preview
    \/ generate_preview_matplotlib
    \/ generate_preview_wireframe
    \/ generate_preview_simple
    \/ tally
    \/ summary

FairSpec == Spec /\ WF_vars(RunStep)

(***************************************************************************)
(* generate_preview_wireframe, lines 92-126: the body of the try block on  *)
(* a mesh that loads.  Coordinates are integers; projected coordinates are *)
(* kept in halves (HalfUnits per unit), so that the 0.5 entries of         *)
(* proj_matrix are exact.  Face and vertex indices are 0-based as in the   *)
(* source; sequences are 1-based, hence the + 1 where one is indexed.      *)
(***************************************************************************)
MaxFaces == 11
MaxCoord == 1
FillStride == 5
HalfUnits == 2

Coords == (0 - MaxCoord)..MaxCoord
Vertices3D == {<<x, y, z>> : x \in Coords, y \in Coords, z \in Coords}

\* face k of the meshes of the model: the three vertices, starting at k mod 3
FaceAt(k) == <<k % 3, (k + 1) % 3, (k + 2) % 3>>

\* meshes: three vertices, the first anywhere on the grid, and up to
\* MaxFaces faces over them
Meshes ==
    {[vertices |-> <<v1, v2, v3>>, faces |-> [k \in 1..n |-> FaceAt(k - 1)]] :
        v1 \in Vertices3D,
        v2 \in {<<1, 0, 0>>, <<0, 1, 1>>},
        v3 \in {<<0, 1, 0>>, <<1, 1, 0 - 1>>},
        n \in 0..MaxFaces}

\* seeded fault: the 0.5 column applied to x only
proj_matrix_x_only == <<<<HalfUnits, 0, 1>>, <<0, HalfUnits, 0>>>>

\* proj_matrix = [[1, 0, 0.5], [0, 1, 0.5]], times HalfUnits
proj_matrix == <<<<HalfUnits, 0, 1>>, <<0, HalfUnits, 1>>>>

\* M.T
Transpose(M) == [c \in 1..Len(M[1]) |-> [r \in 1..Len(M) |-> M[r][c]]]

\* the sum of s[1..n]
RECURSIVE SumFirst(_, _)
SumFirst(s, n) == IF n = 0 THEN 0 ELSE SumFirst(s, n - 1) + s[n]

\* np.dot(A, B) of a Len(A) x k matrix with a k x m matrix
Dot(A, B) ==
    [i \in 1..Len(A) |->
        [j \in 1..Len(B[1]) |->
            SumFirst([k \in 1..Len(B) |-> A[i][k] * B[k][j]], Len(B))]]

\* seeded fault: the slice starts at the stride, [5::5]
SliceIndicesFromStride(n, step) ==
    [j \in 1..(n \div step) |-> j * step]

\* the indices seq[::step] takes from a sequence of length n: 0, step, ...
\* below n, that is ceil(n / step) of them
SliceIndices(n, step) ==
    [j \in 1..((n + step - 1) \div step) |-> (j - 1) * step]

\* vertices_2d[face]: the rows of the three vertex indices of a face
Take(rows, face) == [k \in 1..Len(face) |-> rows[face[k] + 1]]

PipeIdle ==
    /\ tree = {}
    /\ fs = [p \in Dests |-> NoFile]
    /\ run = 1
    /\ pc = "wireframe"
    /\ stl_files = <<>>
    /\ idx = 0
    /\ success = FALSE
    /\ attempts = <<>>
    /\ e = NoError
    /\ success_count = 0
    /\ failure_count = 0
    /\ skipped_count = 0
    /\ outcome = [f \in AllFiles |-> NoOutcome]
    /\ calls = [f \in AllFiles |-> 0]
    /\ exit_code = NoExit
    /\ prev_fs = fs
    /\ prev_outcome = outcome

\* line 92: mesh = trimesh.load_mesh(stl_path) has returned a mesh
InitWire ==
    /\ PipeIdle
    /\ w_pc = "project"
    /\ mesh \in Meshes
    /\ vertices_2d = <<>>
    /\ face_i = 0
    /\ plotted = <<>>
    /\ patches = <<>>

\* lines 97-101
project ==
    /\ w_pc = "project"
    /\ vertices_2d' = Dot(mesh.vertices, Transpose(proj_matrix))
    /\ w_pc' = "plot"
    /\ UNCHANGED <<mesh, face_i, plotted, patches>>
    /\ UNCHANGED pipeVars

\* lines 104-108: one iteration of the loop over mesh.faces, or its end
plot_edges ==
    /\ w_pc = "plot"
    /\ IF face_i < Len(mesh.faces)
       THEN LET face == mesh.faces[face_i + 1]
                triangle == Take(vertices_2d, face)
                triangle_closed == Append(triangle, triangle[1])
            IN  /\ plotted' = Append(plotted, [face |-> face_i, line |-> triangle_closed])
                /\ face_i' = face_i + 1
                /\ w_pc' = w_pc
       ELSE /\ plotted' = plotted
            /\ face_i' = 0
            /\ w_pc' = "fill"
    /\ UNCHANGED <<mesh, vertices_2d, patches>>
    /\ UNCHANGED pipeVars

\* lines 111-115: one iteration of the loop over mesh.faces[::5], or its end
fill_faces ==
    /\ w_pc = "fill"
    /\ LET taken == SliceIndices(Len(mesh.faces), FillStride)
       IN  IF face_i < Len(taken)
           THEN LET face == mesh.faces[taken[face_i + 1] + 1]
                    triangle == Take(vertices_2d, face)
                IN  /\ patches' = Append(patches, [face |-> taken[face_i + 1],
                                                   polygon |-> triangle])
                    /\ face_i' = face_i + 1
                    /\ w_pc' = w_pc
           ELSE /\ patches' = patches
                /\ face_i' = face_i
                /\ w_pc' = "save"
    /\ UNCHANGED <<mesh, vertices_2d, plotted>>
    /\ UNCHANGED pipeVars

\* lines 117-126: the figure is saved and the strategy returns True
savefig ==
    /\ w_pc = "save"
    /\ w_pc' = "returned"
    /\ UNCHANGED <<mesh, vertices_2d, face_i, plotted, patches>>
    /\ UNCHANGED pipeVars

NextWire ==
    \/ project
    \/ plot_edges
    \/ fill_faces
    \/ savefig

SpecWire == InitWire /\ [][NextWire]_vars

(***************************************************************************)
(* Properties of the pipeline and the batch.                               *)
(***************************************************************************)
InCall == pc \in {"matplotlib", "wireframe", "simple", "tally"}

\* the number of files of this run whose generate_preview call has returned
Completed == IF pc = "generate_preview" \/ InCall THEN idx - 1 ELSE idx

CountOf(kind) == Cardinality({f \in AllFiles : outcome[f].kind = kind})

\* C1: for a file whose destination did not exist at the start of
\* generate_preview, the strategies are called in the order matplotlib,
\* wireframe, simple, each at most once, each only after all earlier ones
\* returned False, none after one returned True, and the outcome logged is
\* Success of the first strategy that returned True.
C1_StrategyOrder ==
    LET n == Len(attempts)
    IN  /\ n <= Len(Strategies)
        /\ \A k \in 1..n : attempts[k].by = Strategies[k]
        /\ \A k \in 1..n : attempts[k].ok => k = n /\ pc = "tally"
        /\ pc = "matplotlib" => n = 0
        /\ pc = "wireframe" => n = 1
        /\ pc = "simple" => n = 2
        /\ pc = "tally" => n >= 1 /\ (attempts[n].ok \/ n = Len(Strategies))
        /\ pc = "tally" =>
              IF attempts[n].ok
              THEN success /\ outcome[stl_path] = Success(attempts[n].by)
              ELSE ~success /\ outcome[stl_path].kind # "Success"

C1_Witness ==
    /\ pc = "tally"
    /\ Len(attempts) = 2
    /\ ~attempts[1].ok
    /\ attempts[2].ok
    /\ outcome[stl_path] = Success("wireframe")

\* C2: a generate_preview call that finds the destination existing logs
\* Skipped, calls no strategy (so loads no mesh), leaves the output
\* directory as it is, adds 1 to skipped_count, leaves success_count and
\* failure_count as they are, and returns.
C2_SkipExisting ==
    [][(pc = "generate_preview" /\ fs[output_path] # NoFile) =>
          /\ outcome'[stl_path] = Skipped
          /\ attempts' = <<>>
          /\ e' = NoError
          /\ fs' = fs
          /\ skipped_count' = skipped_count + 1
          /\ success_count' = success_count
          /\ failure_count' = failure_count
          /\ pc' = "loop"]_vars

C2_Witness ==
    /\ pc = "loop"
    /\ idx >= 1
    /\ outcome[stl_path] = Skipped
    /\ fs[output_path] = OldImage
    /\ skipped_count = 1
    /\ success_count = 0
    /\ failure_count = 0

\* C3: when all three strategies returned False the outcome is Failure and
\* the destination holds no image; a strategy call that returns False
\* leaves the output directory as it is, and one that returns True has
\* written the image of its file at the destination and nothing else.
C3_FailureLeavesNothing ==
    /\ [](/\ (pc = "tally" /\ ~success) => fs[output_path] = NoFile
          /\ (pc = "loop" /\ idx >= 1 /\ outcome[stl_path] = Failure)
                => fs[output_path] = NoFile
          /\ pc \in {"wireframe", "simple"} => fs[output_path] = NoFile)
    /\ [][(pc \in {"matplotlib", "wireframe", "simple"}) =>
            LET a == attempts'[Len(attempts')]
            IN  IF a.ok
                THEN fs' = [fs EXCEPT ![output_path] = Image(stl_path, a.by)]
                ELSE fs' = fs]_vars

C3_Witness ==
    /\ pc = "loop"
    /\ idx >= 1
    /\ outcome[stl_path] = Failure
    /\ failure_count >= 1
    /\ fs[output_path] = NoFile

\* C4 as claimed: at the end of a second run every discovered file is
\* Skipped and the output directory is as the first run left it.
C4_AllSkippedOnRerun ==
    (run >= 2 /\ pc = "done") =>
        /\ \A i \in 1..Len(stl_files) : outcome[stl_files[i]] = Skipped
        /\ fs = prev_fs

\* C4 amended: in a run after one that ended, every file the earlier run
\* left as Success or Skipped is Skipped, strategies are called only for
\* files the earlier run left as Failure, and every image the earlier run
\* left is unchanged.
C4_SkippedOnRerunUnlessFailed ==
    run >= 2 =>
        /\ \A f \in AllFiles :
              (outcome[f] # NoOutcome /\ prev_outcome[f].kind \in {"Success", "Skipped"})
                  => outcome[f] = Skipped
        /\ InCall => prev_outcome[stl_path] = Failure
        /\ \A p \in Dests : prev_fs[p] # NoFile => fs[p] = prev_fs[p]

C4_Witness ==
    /\ run = 2
    /\ pc = "done"
    /\ Len(stl_files) = 2
    /\ prev_outcome[stl_files[1]].kind = "Success"
    /\ outcome[stl_files[1]] = Skipped
    /\ prev_outcome[stl_files[2]] = Failure
    /\ outcome[stl_files[2]].kind = "Success"

\* C5: when a run has ended, its exit status is 1 if some file ended in
\* Failure and 0 otherwise; it is 0 when no file qualified.
C5_ExitStatus ==
    pc = "done" =>
        /\ exit_code \in {0, 1}
        /\ exit_code = 1 <=> \E f \in AllFiles : outcome[f] = Failure
        /\ stl_files = <<>> => exit_code = 0
        /\ (\A f \in AllFiles : outcome[f].kind \in {"none", "Success", "Skipped"})
              => exit_code = 0

C5_Witness ==
    /\ pc = "done"
    /\ exit_code = 1
    /\ \E f \in AllFiles : outcome[f] = Failure
    /\ \E f \in AllFiles : outcome[f].kind = "Success"

\* C6: the counters start at 0 and never decrease, a generate_preview call
\* adds 1 to exactly one of them, when it returns; so their sum is the
\* number of files whose call has returned, each counts the files with its
\* outcome, and at the summary the sum is the number of discovered files.
C6_Counters ==
    /\ [](/\ success_count >= 0 /\ failure_count >= 0 /\ skipped_count >= 0
          /\ pc = "main" => success_count + failure_count + skipped_count = 0
          /\ pc # "main" =>
                success_count + failure_count + skipped_count = Completed
          /\ skipped_count = CountOf("Skipped")
          /\ failure_count = CountOf("Failure")
          /\ success_count =
                CountOf("Success") - (IF pc = "tally" /\ success THEN 1 ELSE 0)
          /\ pc \in {"summary", "done"} =>
                success_count + failure_count + skipped_count = Len(stl_files))
    /\ [][run' = run =>
            /\ success_count' \in {success_count, success_count + 1}
            /\ failure_count' \in {failure_count, failure_count + 1}
            /\ skipped_count' \in {skipped_count, skipped_count + 1}
            /\ success_count' + failure_count' + skipped_count'
                 = success_count + failure_count + skipped_count
                   + (IF pc \in {"generate_preview", "tally"} /\ pc' = "loop"
                      THEN 1 ELSE 0)]_vars

C6_Witness ==
    /\ pc = "summary"
    /\ success_count = 0
    /\ failure_count = 1
    /\ skipped_count = 1

\* C7: an error in a strategy is a returned False that moves on to the
\* next strategy, never an exception leaving generate_preview; every
\* discovered file is passed to generate_preview at most once, exactly
\* once by the summary; and a run, also one with a file that ended in
\* Failure, reaches the summary and its exit status.
C7_NoAbort ==
    /\ [](/\ pc # "aborted"
          /\ e # NoError =>
                LET n == Len(attempts)
                IN  /\ n >= 1
                    /\ ~attempts[n].ok
                    /\ n < Len(Strategies) => pc = Strategies[n + 1]
                    /\ n = Len(Strategies) => pc = "tally" /\ ~success
          /\ \A k \in 1..Len(attempts) : attempts[k].ok => e = NoError
          /\ \A f \in AllFiles : calls[f] <= 1
          /\ pc \in {"summary", "done"} =>
                \A f \in tree : calls[f] = (IF Qualifies(f) THEN 1 ELSE 0))
    /\ (pc = "main") ~> (pc = "done" /\ exit_code # NoExit)
    /\ (\E f \in AllFiles : outcome[f] = Failure) ~> (pc = "done" /\ exit_code = 1)

C7_Witness ==
    /\ pc = "done"
    /\ exit_code = 1
    /\ Len(stl_files) = 2
    /\ outcome[stl_files[1]] = Failure
    /\ outcome[stl_files[2]].kind = "Success"
    /\ calls[stl_files[1]] = 1
    /\ calls[stl_files[2]] = 1

\* C10: the destination depends on the stem alone; in one run, after a
\* file ended in Success every later file with its stem is Skipped and the
\* destination keeps the first file's image; there is at most one image
\* per stem.
C10_SameStemSkipped ==
    /\ \A f, g \in AllFiles : f.stem = g.stem => OutputPath(f) = OutputPath(g)
    /\ \A s \in Stems : Cardinality({p \in Dests : p.stem = s /\ fs[p] # NoFile}) <= 1
    /\ \A i, j \in 1..Completed :
          (i < j /\ stl_files[i].stem = stl_files[j].stem
                 /\ outcome[stl_files[i]].kind = "Success")
              => /\ outcome[stl_files[j]] = Skipped
                 /\ fs[OutputPath(stl_files[j])]
                      = [src |-> stl_files[i], by |-> outcome[stl_files[i]].by, run |-> run]

C10_Witness ==
    /\ run = 1
    /\ \A p \in Dests : prev_fs[p] = NoFile
    /\ Completed = 2
    /\ stl_files[1].dir # stl_files[2].dir
    /\ stl_files[1].stem = stl_files[2].stem
    /\ outcome[stl_files[1]].kind = "Success"
    /\ outcome[stl_files[2]] = Skipped
    /\ fs[OutputPath(stl_files[2])].src = stl_files[1]

(***************************************************************************)
(* Properties of the wireframe drawing.                                    *)
(***************************************************************************)
Drawn == w_pc \in {"save", "returned"}

\* C8: once the loops are done, every face index 0..n-1 has exactly one
\* outline, the closed triangle of its projected vertices, and exactly the
\* indices that are multiples of 5 have a filled polygon, one each.
C8_OutlineAllFillFifth ==
    Drawn =>
        LET n == Len(mesh.faces)
        IN  /\ Len(plotted) = n
            /\ \A i \in 0..(n - 1) :
                  /\ Cardinality({k \in 1..Len(plotted) : plotted[k].face = i}) = 1
                  /\ Cardinality({k \in 1..Len(patches) : patches[k].face = i})
                        = (IF i % 5 = 0 THEN 1 ELSE 0)
            /\ \A k \in 1..Len(plotted) :
                  LET face == mesh.faces[plotted[k].face + 1]
                  IN  plotted[k].line = <<vertices_2d[face[1] + 1], vertices_2d[face[2] + 1],
                                          vertices_2d[face[3] + 1], vertices_2d[face[1] + 1]>>
            /\ \A k \in 1..Len(patches) :
                  LET face == mesh.faces[patches[k].face + 1]
                  IN  /\ patches[k].face \in 0..(n - 1)
                      /\ patches[k].polygon = <<vertices_2d[face[1] + 1],
                                                vertices_2d[face[2] + 1],
                                                vertices_2d[face[3] + 1]>>

C8_Witness ==
    /\ w_pc = "returned"
    /\ Len(mesh.faces) = 11
    /\ Len(plotted) = 11
    /\ {patches[k].face : k \in 1..Len(patches)} = {0, 5, 10}

\* C9: every vertex (x, y, z) is projected to (x + z/2, y + z/2), here
\* (2x + z, 2y + z) halves; equal vertices have equal projections; a vertex
\* with z = 0 keeps its (x, y), and a face of such vertices is outlined at
\* its own (x, y) coordinates.
C9_Projection ==
    w_pc # "project" =>
        /\ Len(vertices_2d) = Len(mesh.vertices)
        /\ \A i \in 1..Len(mesh.vertices) :
              LET v == mesh.vertices[i]
              IN  /\ vertices_2d[i] = <<2 * v[1] + v[3], 2 * v[2] + v[3]>>
                  /\ v[3] = 0 => vertices_2d[i] = <<2 * v[1], 2 * v[2]>>
        /\ \A i, j \in 1..Len(mesh.vertices) :
              mesh.vertices[i] = mesh.vertices[j] => vertices_2d[i] = vertices_2d[j]
        /\ \A k \in 1..Len(plotted) :
              LET face == mesh.faces[plotted[k].face + 1]
              IN  (\A c \in 1..3 : mesh.vertices[face[c] + 1][3] = 0) =>
                      \A c \in 1..3 :
                          plotted[k].line[c] = <<2 * mesh.vertices[face[c] + 1][1],
                                                 2 * mesh.vertices[face[c] + 1][2]>>

C9_Witness ==
    /\ w_pc = "returned"
    /\ mesh.vertices = <<(<<0, 0, 0>>), (<<1, 0, 0>>), (<<0, 1, 0>>)>>
    /\ mesh.faces = <<(<<0, 1, 2>>)>>
    /\ plotted[1].line = <<(<<0, 0>>), (<<2, 0>>), (<<0, 2>>), (<<0, 0>>)>>

====
